---- MODULE Spec2Model ----
\* A model of redis/sansio/_parser.py: the resumable RESP2/RESP3 reply parser
\* PythonParser.  Bytes are one-character strings, a bytes object is a
\* sequence of them.  The generator chain that parse_one drives is an
\* explicit stack of frames, one frame per active generator function, each
\* with the label (pc) at which it continues.
EXTENDS Integers, Sequences, FiniteSets, TLC

VARIABLES buf, pos, err, gen, encoding, errors, protocols,
          items, stream, fed, out, last, base, inOrder, encAtStart

vars == <<buf, pos, err, gen, encoding, errors, protocols,
          items, stream, fed, out, last, base, inOrder, encAtStart>>

\* ---------------------------------------------------------------- bytes

CR == "\r"
LF == "\n"
CRLF == <<CR, LF>>
XFF == "0xFF"

Digits == {"0", "1", "2", "3", "4", "5", "6", "7", "8", "9"}

Whitespace == {" ", "\t", CR, LF}

DigitVal(c) ==
    CASE c = "0" -> 0 [] c = "1" -> 1 [] c = "2" -> 2 [] c = "3" -> 3
      [] c = "4" -> 4 [] c = "5" -> 5 [] c = "6" -> 6 [] c = "7" -> 7
      [] c = "8" -> 8 [] c = "9" -> 9

Min(a, b) == IF a < b THEN a ELSE b

Max(a, b) == IF a > b THEN a ELSE b

\* Python's index normalisation of a slice bound on a sequence of length n.
SliceIndex(i, n) == IF i < 0 THEN Max(i + n, 0) ELSE Min(i, n)

\* s[a:b] of Python, on 0-based indices that may be negative.
PySlice(s, a, b) ==
    LET lo == SliceIndex(a, Len(s))
        hi == SliceIndex(b, Len(s))
    IN  IF lo >= hi THEN <<>> ELSE SubSeq(s, lo + 1, hi)

\* The sequence left by  del s[:k]  (equal to s[k:]).
DelPrefix(s, k) == PySlice(s, k, Len(s))

\* bytearray.find(b"\r\n", start): lowest 0-based index >= start, or -1.
Find(s, start) ==
    LET hits == {i \in start .. Len(s) - 2 : s[i + 1] = CR /\ s[i + 2] = LF}
    IN  IF hits = {} THEN -1
        ELSE CHOOSE i \in hits : \A j \in hits : i <= j

\* ---------------------------------------------------------------- values

\* Every Python value the parser builds is one record shape:
\*   t  the Python type, i its number, s its bytes or text, k its children.
Val(t, i, s, k) == [t |-> t, i |-> i, s |-> s, k |-> k]

BytesVal(s) == Val("bytes", 0, s, <<>>)

StrVal(s) == Val("str", 0, s, <<>>)

IntVal(i) == Val("int", i, <<>>, <<>>)

FloatVal(s) == Val("float", 0, s, <<>>)

BoolVal(b) == Val("bool", IF b THEN 1 ELSE 0, <<>>, <<>>)

NoneVal == Val("none", 0, <<>>, <<>>)

ListVal(k) == Val("list", 0, <<>>, k)

SetVal(k) == Val("set", 0, <<>>, k)

PairVal(key, v) == Val("pair", 0, <<>>, <<key, v>>)

DictVal(k) == Val("dict", 0, <<>>, k)

\* The value reply_error_ctor builds from the message text.
replyError(text) == Val("replyerror", 0, text, <<>>)

\* An exception object; NoErr is Python's None in _err.
Exc(cls, msg, arg) == [cls |-> cls, msg |-> msg, arg |-> arg]

NoErr == Exc("None", "", <<>>)

\* The value protocol_error_ctor builds from a message.
protocolError(msg, arg) == Exc("ProtocolError", msg, arg)

\* ---------------------------------------------------------------- builtins

RECURSIVE LStrip(_)
LStrip(s) == IF s # <<>> /\ s[1] \in Whitespace THEN LStrip(Tail(s)) ELSE s

RECURSIVE RStrip(_)
RStrip(s) ==
    IF s # <<>> /\ s[Len(s)] \in Whitespace
    THEN RStrip(SubSeq(s, 1, Len(s) - 1)) ELSE s

Strip(s) == RStrip(LStrip(s))

HasSign(s) == s # <<>> /\ s[1] \in {"+", "-"}

Unsigned(s) == IF HasSign(s) THEN Tail(s) ELSE s

\* Digits with single underscores between them, as int() and float() accept.
IsDigitRun(s) ==
    /\ s # <<>>
    /\ s[1] \in Digits /\ s[Len(s)] \in Digits
    /\ \A i \in 1 .. Len(s) : s[i] \in Digits \cup {"_"}
    /\ \A i \in 1 .. Len(s) - 1 : ~(s[i] = "_" /\ s[i + 1] = "_")

RECURSIVE DigitRunVal(_, _)
DigitRunVal(s, acc) ==
    IF s = <<>> THEN acc
    ELSE IF s[1] = "_" THEN DigitRunVal(Tail(s), acc)
    ELSE DigitRunVal(Tail(s), 10 * acc + DigitVal(s[1]))

\* int(token) for a bytes token: ok is FALSE where Python raises ValueError.
PyInt(tok) ==
    LET t == Strip(tok)
        u == Unsigned(t)
    IN  IF IsDigitRun(u)
        THEN [ok |-> TRUE,
              v |-> IF HasSign(t) /\ t[1] = "-"
                    THEN 0 - DigitRunVal(u, 0) ELSE DigitRunVal(u, 0)]
        ELSE [ok |-> FALSE, v |-> 0]

IndexOf(s, c) ==
    LET hits == {i \in 1 .. Len(s) : s[i] = c}
    IN  IF hits = {} THEN 0 ELSE CHOOSE i \in hits : \A j \in hits : i <= j

\* The mantissa forms float() accepts: digits, digits. , digits.digits, .digits
IsMantissa(m) ==
    LET d == IndexOf(m, ".")
        ip == IF d = 0 THEN m ELSE SubSeq(m, 1, d - 1)
        fp == IF d = 0 THEN <<>> ELSE SubSeq(m, d + 1, Len(m))
    IN  /\ ip = <<>> \/ IsDigitRun(ip)
        /\ fp = <<>> \/ IsDigitRun(fp)
        /\ ip # <<>> \/ fp # <<>>

IsDecimal(u) ==
    LET e == IndexOf(u, "e")
    IN  IF e = 0 THEN IsMantissa(u)
        ELSE /\ IsMantissa(SubSeq(u, 1, e - 1))
             /\ IsDigitRun(Unsigned(SubSeq(u, e + 1, Len(u))))

RECURSIVE DropLeadingZeros(_)
DropLeadingZeros(s) ==
    IF Len(s) > 1 /\ s[1] \in {"0", "_"} THEN DropLeadingZeros(Tail(s)) ELSE s

RECURSIVE DropTrailingZeros(_)
DropTrailingZeros(s) ==
    IF s # <<>> /\ s[Len(s)] \in {"0", "_"}
    THEN DropTrailingZeros(SubSeq(s, 1, Len(s) - 1)) ELSE s

\* The number a decimal token without exponent denotes, as a canonical token:
\* equal numbers get equal tokens ("1.50" and "01.5" both give 1.5).
CanonDecimal(t) ==
    LET u == Unsigned(t)
        d == IndexOf(u, ".")
        ip == IF d = 0 THEN u ELSE SubSeq(u, 1, d - 1)
        fp == IF d = 0 THEN <<>> ELSE SubSeq(u, d + 1, Len(u))
        ci == IF ip = <<>> THEN <<"0">> ELSE DropLeadingZeros(ip)
        cf == DropTrailingZeros(fp)
        mag == IF cf = <<>> THEN ci ELSE ci \o <<".">> \o cf
    IN  IF HasSign(t) /\ t[1] = "-" THEN <<"-">> \o mag ELSE mag

\* float(token): ok is FALSE where Python raises ValueError.
PyFloat(tok) ==
    LET t == Strip(tok)
        u == Unsigned(t)
        neg == HasSign(t) /\ t[1] = "-"
    IN  IF u \in {<<"i", "n", "f">>, <<"i", "n", "f", "i", "n", "i", "t", "y">>}
        THEN [ok |-> TRUE, v |-> IF neg THEN <<"-", "i", "n", "f">>
                                        ELSE <<"i", "n", "f">>]
        ELSE IF u = <<"n", "a", "n">> THEN [ok |-> TRUE, v |-> u]
        ELSE IF IsDecimal(u)
        THEN [ok |-> TRUE, v |-> IF IndexOf(u, "e") = 0 THEN CanonDecimal(t) ELSE t]
        ELSE [ok |-> FALSE, v |-> <<>>]

\* bytes.decode(encoding, errors) for an ASCII-compatible encoding: the byte
\* XFF is not decodable; ok is FALSE where Python raises UnicodeDecodeError.
RECURSIVE DecodeText(_, _)
DecodeText(b, errs) ==
    IF b = <<>> THEN <<>>
    ELSE IF b[1] # XFF THEN <<b[1]>> \o DecodeText(Tail(b), errs)
    ELSE IF errs = "replace" THEN <<"U+FFFD">> \o DecodeText(Tail(b), errs)
    ELSE DecodeText(Tail(b), errs)

PyDecode(b, enc, errs) ==
    IF enc = "None" THEN [ok |-> FALSE, cls |-> "TypeError", v |-> <<>>]
    ELSE IF errs = "strict" /\ \E i \in 1 .. Len(b) : b[i] = XFF
    THEN [ok |-> FALSE, cls |-> "UnicodeDecodeError", v |-> <<>>]
    ELSE [ok |-> TRUE, cls |-> "", v |-> DecodeText(b, errs)]

\* ---------------------------------------------------------------- generators

\* One active generator function: fn its name, pc where it continues, n its
\* integer local (size, length or keynum), i the loop index, acc the container
\* being built and key the pending map key.
Frame(fn, pc, n) ==
    [fn |-> fn, pc |-> pc, n |-> n, i |-> 0, acc |-> <<>>, key |-> NoneVal]

\* A run of the generator chain: the parser fields it reads and writes, the
\* stack of frames (innermost last), and st: "run" while executing, "yield"
\* at a yield of notEnoughData, "done" with the returned value in ret when
\* the outermost generator returns, "raised" with the exception in exc.
Top(m) == m.stack[Len(m.stack)]

SetTop(m, f) == [m EXCEPT !.stack[Len(m.stack)] = f]

Goto(m, pc) == SetTop(m, [Top(m) EXCEPT !.pc = pc])

\* yield from callee: the caller continues at pc when the callee returns.
Call(m, pc, callee) ==
    [m EXCEPT !.stack = Append([@ EXCEPT ![Len(m.stack)].pc = pc], callee)]

Return(m, v) ==
    [m EXCEPT !.stack = SubSeq(@, 1, Len(@) - 1),
              !.ret = v,
              !.st = IF Len(m.stack) = 1 THEN "done" ELSE "run"]

\* No generator of the chain catches what a callee raises (readint's try
\* covers a readline without size, which raises nothing), so an exception
\* unwinds the whole chain.
Raise(m, e) == [m EXCEPT !.stack = <<>>, !.st = "raised", !.exc = e]

\* error without the store into _err: the error is raised but not latched.
error_unlatched(m, msg, arg) == Raise(m, protocolError(msg, arg))

\* raise self.error(msg)
error(m, msg, arg) ==
    Raise([m EXCEPT !.err = protocolError(msg, arg)], protocolError(msg, arg))

waitsome(m) ==
    IF Len(m.buf) < m.pos + Top(m).n
    THEN [m EXCEPT !.st = "yield"]
    ELSE Return(m, NoneVal)

\* waitany fixes the size when it is called: len(buf) + 1.
waitany(m, pc) == Call(m, pc, Frame("waitsome", "loop", Len(m.buf) + 1))

readone(m) ==
    IF Top(m).pc = "start"
    THEN IF PySlice(m.buf, m.pos, m.pos + 1) = <<>>
         THEN waitany(m, "read")
         ELSE Goto(m, "read")
    ELSE Return([m EXCEPT !.pos = @ + 1],
                BytesVal(PySlice(m.buf, m.pos, m.pos + 1)))

\* TakeLine that leaves the LF of the line terminator in buf.
TakeLine_keepsLF(m, offset) ==
    Return([m EXCEPT !.pos = 0, !.buf = DelPrefix(@, offset + 1)],
           BytesVal(PySlice(m.buf, m.pos, offset)))

\* TakeLine without pos = 0: the cursor stays where the line began.
TakeLine_keepsPos(m, offset) ==
    Return([m EXCEPT !.buf = DelPrefix(@, offset + 2)],
           BytesVal(PySlice(m.buf, m.pos, offset)))

\* The tail of readline: take buf[pos:offset] and drop the line.
TakeLine(m, offset) ==
    Return([m EXCEPT !.pos = 0, !.buf = DelPrefix(@, offset + 2)],
           BytesVal(PySlice(m.buf, m.pos, offset)))

\* readline that ends a sized read at the first CRLF it finds.
readline_scans(m) ==
    IF Top(m).fn = "readline"
    THEN LET offset == Find(m.buf, m.pos)
         IN  IF offset < 0 THEN waitany(m, "find") ELSE TakeLine(m, offset)
    ELSE IF Top(m).pc = "start"
    THEN IF Len(m.buf) < Top(m).n + 2 + m.pos
         THEN Call(m, "check", Frame("waitsome", "loop", Top(m).n + 2))
         ELSE Goto(m, "check")
    ELSE TakeLine(m, Find(m.buf, m.pos))

\* readline(size): fn "readline" is the call without size (pc "find"),
\* "readline_size" the call with size = n (pc "start", then "check").
readline(m) ==
    IF Top(m).fn = "readline"
    THEN LET offset == Find(m.buf, m.pos)
         IN  IF offset < 0 THEN waitany(m, "find") ELSE TakeLine(m, offset)
    ELSE IF Top(m).pc = "start"
    THEN IF Len(m.buf) < Top(m).n + 2 + m.pos
         THEN Call(m, "check", Frame("waitsome", "loop", Top(m).n + 2))
         ELSE Goto(m, "check")
    ELSE LET offset == m.pos + Top(m).n
         IN  IF PySlice(m.buf, offset, offset + 2) # CRLF
             THEN error(m, "Expected b'\\r\\n'", <<>>)
             ELSE TakeLine(m, offset)

readint(m) ==
    IF Top(m).pc = "start"
    THEN Call(m, "line", Frame("readline", "find", 0))
    ELSE IF PyInt(m.ret.s).ok
    THEN Return(m, IntVal(PyInt(m.ret.s).v))
    ELSE error(m, "ValueError", m.ret.s)

readfloat(m) ==
    IF Top(m).pc = "start"
    THEN Call(m, "line", Frame("readline", "find", 0))
    ELSE IF PyFloat(m.ret.s).ok
    THEN Return(m, FloatVal(PyFloat(m.ret.s).v))
    ELSE error(m, "ValueError", m.ret.s)

readbool(m) ==
    IF Top(m).pc = "start"
    THEN Call(m, "line", Frame("readline", "find", 0))
    ELSE Return(m, BoolVal(m.ret.s = <<"t">>))

\* ---------------------------------------------------------------- frame parsers

\* return self._maybe_decode(val)
_maybe_decode(m, val) ==
    IF val.t = "none" THEN Return(m, val)
    ELSE LET d == PyDecode(val.s, m.encoding, m.errors)
         IN  IF d.ok THEN Return(m, StrVal(d.v))
             ELSE Raise(m, Exc(d.cls, "decode", val.s))

_parse_error(m) ==
    IF Top(m).pc = "start"
    THEN Call(m, "line", Frame("readline", "find", 0))
    ELSE Return(m, replyError(DecodeText(
             IF m.ret.s = <<>> THEN <<"E", "r", "r", "o", "r">> ELSE m.ret.s,
             "replace")))

_parse_single(m) ==
    IF Top(m).pc = "start"
    THEN Call(m, "line", Frame("readline", "find", 0))
    ELSE Return(m, m.ret)

_parse_single_decode(m) ==
    IF Top(m).pc = "start"
    THEN Call(m, "val", Frame("_parse_single", "start", 0))
    ELSE _maybe_decode(m, m.ret)

\* vbt.split(b":", maxsplit=1) unpacked into two names: a payload without
\* ":" gives one part and the unpacking raises ValueError.
_parse_verbatim(m) ==
    CASE Top(m).pc = "start" -> Call(m, "length", Frame("readint", "start", 0))
      [] Top(m).pc = "length" ->
            IF m.ret.i = -1 THEN Return(m, NoneVal)
            ELSE Call(m, "vbt", Frame("readline_size", "start", m.ret.i))
      [] Top(m).pc = "vbt" ->
            IF IndexOf(m.ret.s, ":") = 0
            THEN Raise(m, Exc("ValueError", "not enough values to unpack", m.ret.s))
            ELSE Return(m, BytesVal(SubSeq(m.ret.s, IndexOf(m.ret.s, ":") + 1,
                                           Len(m.ret.s))))

_parse_verbatim_decode(m) ==
    IF Top(m).pc = "start"
    THEN Call(m, "val", Frame("_parse_verbatim", "start", 0))
    ELSE _maybe_decode(m, m.ret)

_parse_int(m) ==
    IF Top(m).pc = "start"
    THEN Call(m, "val", Frame("readint", "start", 0))
    ELSE Return(m, m.ret)

_parse_float(m) ==
    IF Top(m).pc = "start"
    THEN Call(m, "val", Frame("readfloat", "start", 0))
    ELSE Return(m, m.ret)

_parse_bulk(m) ==
    CASE Top(m).pc = "start" -> Call(m, "length", Frame("readint", "start", 0))
      [] Top(m).pc = "length" ->
            IF m.ret.i = -1 THEN Return(m, NoneVal)
            ELSE Call(m, "val", Frame("readline_size", "start", m.ret.i))
      [] Top(m).pc = "val" -> Return(m, m.ret)

_parse_bulk_decode(m) ==
    IF Top(m).pc = "start"
    THEN Call(m, "val", Frame("_parse_bulk", "start", 0))
    ELSE _maybe_decode(m, m.ret)

\* _parse_mutibulk that stops one child early.
_parse_mutibulk_short(m) ==
    CASE Top(m).pc = "start" -> Call(m, "length", Frame("readint", "start", 0))
      [] Top(m).pc = "length" ->
            IF m.ret.i = -1 THEN Return(m, NoneVal)
            ELSE SetTop(m, [Top(m) EXCEPT !.pc = "loop", !.n = m.ret.i])
      [] Top(m).pc = "loop" ->
            IF Top(m).i + 1 < Top(m).n
            THEN Call(m, "append", Frame("parse", "start", 0))
            ELSE Return(m, ListVal(Top(m).acc))
      [] Top(m).pc = "append" ->
            SetTop(m, [Top(m) EXCEPT !.pc = "loop", !.i = @ + 1,
                                     !.acc = Append(@, m.ret)])

\* for _ in range(length): append((yield from parse()))
_parse_mutibulk(m) ==
    CASE Top(m).pc = "start" -> Call(m, "length", Frame("readint", "start", 0))
      [] Top(m).pc = "length" ->
            IF m.ret.i = -1 THEN Return(m, NoneVal)
            ELSE SetTop(m, [Top(m) EXCEPT !.pc = "loop", !.n = m.ret.i])
      [] Top(m).pc = "loop" ->
            IF Top(m).i < Top(m).n
            THEN Call(m, "append", Frame("parse", "start", 0))
            ELSE Return(m, ListVal(Top(m).acc))
      [] Top(m).pc = "append" ->
            SetTop(m, [Top(m) EXCEPT !.pc = "loop", !.i = @ + 1,
                                     !.acc = Append(@, m.ret)])

_parse_null(m) ==
    IF Top(m).pc = "start"
    THEN Call(m, "line", Frame("readline", "find", 0))
    ELSE Return(m, NoneVal)

_parse_bool(m) ==
    IF Top(m).pc = "start"
    THEN Call(m, "val", Frame("readbool", "start", 0))
    ELSE Return(m, m.ret)

\* Python's == between two parsed values, as dict uses it on keys that hash
\* alike: numbers compare by value across int, bool and float, nan equals
\* nothing, and two reply errors are two objects.
IsNumber(v) == v.t \in {"int", "bool"}

IsIntegralFloat(v) ==
    v.t = "float" /\ \A j \in 1 .. Len(v.s) : v.s[j] \in Digits \cup {"-"}

PyEq(a, b) ==
    IF IsNumber(a) /\ IsNumber(b) THEN a.i = b.i
    ELSE IF IsNumber(a) /\ IsIntegralFloat(b) THEN a.i = PyInt(b.s).v
    ELSE IF IsIntegralFloat(a) /\ IsNumber(b) THEN PyInt(a.s).v = b.i
    ELSE IF a.t = "float" /\ a.s = <<"n", "a", "n">> THEN FALSE
    ELSE IF a.t = "replyerror" THEN FALSE
    ELSE a = b

Unhashable(v) == v.t \in {"list", "dict", "set"}

\* val[key] = v that leaves an equal key with the value it has.
DictSet_firstWins(pairs, key, v) ==
    IF \E j \in 1 .. Len(pairs) : PyEq(pairs[j].k[1], key)
    THEN pairs
    ELSE Append(pairs, PairVal(key, v))

\* val[key] = v on the pairs of a dict in insertion order: an equal key keeps
\* its place and its first key object and takes the new value.
DictSet(pairs, key, v) ==
    IF \E j \in 1 .. Len(pairs) : PyEq(pairs[j].k[1], key)
    THEN [j \in 1 .. Len(pairs) |->
            IF PyEq(pairs[j].k[1], key) THEN PairVal(pairs[j].k[1], v)
            ELSE pairs[j]]
    ELSE Append(pairs, PairVal(key, v))

_parse_dict(m) ==
    CASE Top(m).pc = "start" -> Call(m, "keynum", Frame("readint", "start", 0))
      [] Top(m).pc = "keynum" ->
            IF m.ret.i = -1 THEN Return(m, NoneVal)
            ELSE SetTop(m, [Top(m) EXCEPT !.pc = "loop", !.n = m.ret.i])
      [] Top(m).pc = "loop" ->
            IF Top(m).i < Top(m).n
            THEN Call(m, "key", Frame("parse", "start", 0))
            ELSE Return(m, DictVal(Top(m).acc))
      [] Top(m).pc = "key" ->
            Call(SetTop(m, [Top(m) EXCEPT !.key = m.ret]), "v",
                 Frame("parse", "start", 0))
      [] Top(m).pc = "v" ->
            IF Unhashable(Top(m).key)
            THEN Raise(m, Exc("TypeError", "unhashable type", <<>>))
            ELSE SetTop(m, [Top(m) EXCEPT !.pc = "loop", !.i = @ + 1,
                                          !.acc = DictSet(@, Top(m).key, m.ret)])

\* add((yield from parse)): parse is the bound method, not a call of it, and
\* yield from a method raises TypeError, on the first iteration.
_parse_set(m) ==
    CASE Top(m).pc = "start" -> Call(m, "length", Frame("readint", "start", 0))
      [] Top(m).pc = "length" ->
            IF m.ret.i = -1 THEN Return(m, NoneVal)
            ELSE SetTop(m, [Top(m) EXCEPT !.pc = "loop", !.n = m.ret.i])
      [] Top(m).pc = "loop" ->
            IF Top(m).i < Top(m).n
            THEN Raise(m, Exc("TypeError", "'method' object is not iterable", <<>>))
            ELSE Return(m, SetVal(Top(m).acc))

\* _parse_vector returns the generator of _parse_mutibulk.
_parse_vector(m) == _parse_mutibulk(m)

_PROTOCOLS ==
    [c \in {"-", "+", ":", "(", ",", "#", "_", "$", "=", "*", "~", "%", ">"} |->
        CASE c = "-" -> "_parse_error"
          [] c = "+" -> "_parse_single"
          [] c = ":" -> "_parse_int"
          [] c = "(" -> "_parse_int"
          [] c = "," -> "_parse_float"
          [] c = "#" -> "_parse_bool"
          [] c = "_" -> "_parse_null"
          [] c = "$" -> "_parse_bulk"
          [] c = "=" -> "_parse_verbatim"
          [] c = "*" -> "_parse_mutibulk"
          [] c = "~" -> "_parse_set"
          [] c = "%" -> "_parse_dict"
          [] c = ">" -> "_parse_vector"]

_PROTOCOLS_DECODE ==
    [c \in DOMAIN _PROTOCOLS |->
        CASE c = "+" -> "_parse_single_decode"
          [] c = "$" -> "_parse_bulk_decode"
          [] c = "=" -> "_parse_verbatim_decode"
          [] OTHER -> _PROTOCOLS[c]]

Table(m) == IF m.protocols = "_PROTOCOLS_DECODE" THEN _PROTOCOLS_DECODE ELSE _PROTOCOLS

\* parse without the check of _err at its start.
parse_unchecked(m) ==
    CASE Top(m).pc = "start" -> Call(m, "ctl", Frame("readone", "start", 0))
      [] Top(m).pc = "ctl" ->
            IF m.ret.s[1] \notin DOMAIN Table(m)
            THEN error(m, "Protocol Error", m.ret.s)
            ELSE Call(m, "tail", Frame(Table(m)[m.ret.s[1]], "start", 0))
      [] Top(m).pc = "tail" -> Return(m, m.ret)

parse(m) ==
    CASE Top(m).pc = "start" ->
            IF m.err # NoErr THEN Raise(m, m.err)
            ELSE Call(m, "ctl", Frame("readone", "start", 0))
      [] Top(m).pc = "ctl" ->
            IF m.ret.s[1] \notin DOMAIN Table(m)
            THEN error(m, "Protocol Error", m.ret.s)
            ELSE Call(m, "tail", Frame(Table(m)[m.ret.s[1]], "start", 0))
      [] Top(m).pc = "tail" -> Return(m, m.ret)

\* One step of the innermost generator.
Step(m) ==
    LET fn == Top(m).fn
    IN  CASE fn = "waitsome" -> waitsome(m)
          [] fn = "readone" -> readone(m)
          [] fn \in {"readline", "readline_size"} -> readline(m)
          [] fn = "readint" -> readint(m)
          [] fn = "readfloat" -> readfloat(m)
          [] fn = "readbool" -> readbool(m)
          [] fn = "parse" -> parse(m)
          [] fn = "_parse_error" -> _parse_error(m)
          [] fn = "_parse_single" -> _parse_single(m)
          [] fn = "_parse_single_decode" -> _parse_single_decode(m)
          [] fn = "_parse_verbatim" -> _parse_verbatim(m)
          [] fn = "_parse_verbatim_decode" -> _parse_verbatim_decode(m)
          [] fn = "_parse_int" -> _parse_int(m)
          [] fn = "_parse_float" -> _parse_float(m)
          [] fn = "_parse_bulk" -> _parse_bulk(m)
          [] fn = "_parse_bulk_decode" -> _parse_bulk_decode(m)
          [] fn = "_parse_mutibulk" -> _parse_mutibulk(m)
          [] fn = "_parse_null" -> _parse_null(m)
          [] fn = "_parse_bool" -> _parse_bool(m)
          [] fn = "_parse_dict" -> _parse_dict(m)
          [] fn = "_parse_set" -> _parse_set(m)
          [] fn = "_parse_vector" -> _parse_vector(m)

\* self._gen.send(None): run the chain to its next yield, return or raise.
RECURSIVE Send(_)
Send(m) == IF m.st # "run" THEN m ELSE Send(Step(m))

\* parse_one that makes a new parse() at every call.
Machine_restarts(b, p, e, g, enc, errs, tab) ==
    [buf |-> b, pos |-> p, err |-> e, encoding |-> enc, errors |-> errs,
     protocols |-> tab,
     stack |-> <<Frame("parse", "start", 0)>>,
     st |-> "run", ret |-> NoneVal, exc |-> NoErr]

\* The chain parse_one resumes: a new parse() when _gen is None (the empty
\* stack), else the suspended one.
Machine(b, p, e, g, enc, errs, tab) ==
    [buf |-> b, pos |-> p, err |-> e, encoding |-> enc, errors |-> errs,
     protocols |-> tab,
     stack |-> IF g = <<>> THEN <<Frame("parse", "start", 0)>> ELSE g,
     st |-> "run", ret |-> NoneVal, exc |-> NoErr]

\* ---------------------------------------------------------------- wire input

\* A reply as it is put on the wire: tag its type byte, n the declared
\* length, s the line or payload bytes, kids the children in wire order.
\* The tag "raw" stands for the bytes s themselves, outside the grammar.
Term(tag, n, s, kids) == [tag |-> tag, n |-> n, s |-> s, kids |-> kids]

LineTerm(tag, s) == Term(tag, 0, s, <<>>)

BulkTerm(tag, s) == Term(tag, Len(s), s, <<>>)

NullTerm(tag) == Term(tag, -1, <<>>, <<>>)

AggTerm(tag, kids) ==
    Term(tag, IF tag = "%" THEN Len(kids) \div 2 ELSE Len(kids), <<>>, kids)

RawTerm(s) == Term("raw", 0, s, <<>>)

LineTags == {"+", "-", ":", "(", ",", "#", "_"}

BulkTags == {"$", "="}

AggTags == {"*", "~", "%", ">"}

DigitChar(d) ==
    CASE d = 0 -> "0" [] d = 1 -> "1" [] d = 2 -> "2" [] d = 3 -> "3"
      [] d = 4 -> "4" [] d = 5 -> "5" [] d = 6 -> "6" [] d = 7 -> "7"
      [] d = 8 -> "8" [] d = 9 -> "9"

RECURSIVE NatTok(_)
NatTok(n) ==
    IF n < 10 THEN <<DigitChar(n)>>
    ELSE NatTok(n \div 10) \o <<DigitChar(n % 10)>>

IntTok(n) == IF n < 0 THEN <<"-">> \o NatTok(0 - n) ELSE NatTok(n)

\* The bytes of a reply on the wire.
RECURSIVE Enc(_)
RECURSIVE EncAll(_)
Enc(t) ==
    IF t.tag = "raw" THEN t.s
    ELSE IF t.tag \in LineTags THEN <<t.tag>> \o t.s \o CRLF
    ELSE IF t.tag \in BulkTags
    THEN <<t.tag>> \o IntTok(t.n) \o CRLF
         \o (IF t.n = -1 THEN <<>> ELSE t.s \o CRLF)
    ELSE <<t.tag>> \o IntTok(t.n) \o CRLF \o EncAll(t.kids)

EncAll(ts) == IF ts = <<>> THEN <<>> ELSE Enc(ts[1]) \o EncAll(Tail(ts))

IsPlainInt(s) ==
    Unsigned(s) # <<>> /\ \A j \in 1 .. Len(Unsigned(s)) : Unsigned(s)[j] \in Digits

\* The grammar of the replies the parser has to accept: every line is free
\* of CR and LF, the declared lengths are exact, a verbatim payload has its
\* three-byte format and ":", and a map key is not an aggregate.
RECURSIVE WellFormed(_)
WellFormed(t) ==
    CASE t.tag \in {"+", "-"} -> \A j \in 1 .. Len(t.s) : t.s[j] \notin {CR, LF}
      [] t.tag \in {":", "("} -> IsPlainInt(t.s)
      [] t.tag = "," -> PyFloat(t.s).ok /\ Strip(t.s) = t.s
      [] t.tag = "#" -> t.s \in {<<"t">>, <<"f">>}
      [] t.tag = "_" -> t.s = <<>>
      [] t.tag = "$" -> t.n = -1 \/ t.n = Len(t.s)
      [] t.tag = "=" -> t.n = -1 \/ (t.n = Len(t.s) /\ t.n >= 4 /\ t.s[4] = ":")
      [] t.tag \in {"*", "~", ">"} ->
            \/ t.n = -1 /\ t.kids = <<>>
            \/ t.n = Len(t.kids) /\ \A j \in 1 .. Len(t.kids) : WellFormed(t.kids[j])
      [] t.tag = "%" ->
            \/ t.n = -1 /\ t.kids = <<>>
            \/ /\ 2 * t.n = Len(t.kids)
               /\ \A j \in 1 .. Len(t.kids) : WellFormed(t.kids[j])
               /\ \A j \in 1 .. t.n : t.kids[2 * j - 1].tag \notin AggTags
      [] OTHER -> FALSE

\* The terms of a reply: the reply and, recursively, its children.
RECURSIVE SubTerms(_)
SubTerms(t) ==
    {t} \cup UNION {SubTerms(t.kids[j]) : j \in 1 .. Len(t.kids)}

\* ---------------------------------------------------------------- inputs

\* Nesting depth of the aggregates fed to the parser.
MaxDepth == 2

\* Number of top-level replies in the byte stream.
MaxReplies == 3

\* Number of parse_one outcomes (values and raises) one run records.
MaxOut == 5

OK == <<"O", "K">>

Seven == LineTerm(":", <<"7">>)

Leaves ==
    {LineTerm("+", OK), LineTerm("+", <<>>), LineTerm("+", <<XFF>>),
     LineTerm("-", <<"E">>), Seven, LineTerm(":", <<"-", "4">>),
     LineTerm("(", <<"1", "2">>), LineTerm(",", <<"1", ".", "5">>),
     LineTerm("#", <<"t">>), LineTerm("#", <<"f">>), LineTerm("_", <<>>),
     BulkTerm("$", <<"h", "i">>), BulkTerm("$", <<>>), NullTerm("$"),
     BulkTerm("$", <<CR, LF>>), BulkTerm("=", <<"t", "x", "t", ":", "a">>),
     NullTerm("=")}

Kids == {Seven, BulkTerm("$", <<"h", "i">>), LineTerm("-", <<"E">>)}

Key == LineTerm("+", <<"k">>)

\* The aggregates of depth 1.
Flat ==
    {AggTerm(tag, <<>>) : tag \in AggTags}
    \cup {NullTerm(tag) : tag \in AggTags}
    \cup {AggTerm("*", <<k>>) : k \in Kids}
    \cup {AggTerm("~", <<Seven>>), AggTerm("~", <<LineTerm("-", <<"E">>)>>),
          AggTerm("~", <<Seven, Seven>>), AggTerm(">", <<Seven>>),
          AggTerm("*", <<Seven, BulkTerm("$", <<"h", "i">>)>>),
          AggTerm("*", <<LineTerm("-", <<"E">>), Seven>>),
          AggTerm("%", <<Key, Seven>>),
          AggTerm("%", <<Key, BulkTerm("$", <<"h", "i">>)>>),
          AggTerm("%", <<Seven, LineTerm("-", <<"E">>)>>),
          AggTerm("%", <<Seven, LineTerm("+", OK), Seven, LineTerm("#", <<"t">>)>>)}

\* The aggregates that are nested into deeper ones.
Inner ==
    {AggTerm("*", <<>>), NullTerm("*"), AggTerm("~", <<Seven>>),
     AggTerm(">", <<Seven>>), AggTerm("*", <<LineTerm("-", <<"E">>), Seven>>),
     AggTerm("*", <<Seven, BulkTerm("$", <<"h", "i">>)>>),
     AggTerm("%", <<Key, BulkTerm("$", <<"h", "i">>)>>),
     AggTerm("%", <<Seven, LineTerm("+", OK), Seven, LineTerm("#", <<"t">>)>>)}

\* An aggregate one level deeper around t.
Wrap(t) == {AggTerm("*", <<Seven, t>>), AggTerm("%", <<Key, t>>)}

RECURSIVE Level(_)
Level(d) ==
    IF d <= 1 THEN Flat
    ELSE UNION {Wrap(t) : t \in IF d = 2 THEN Inner ELSE Level(d - 1)}

Nested == UNION {Level(d) : d \in 1 .. MaxDepth}

\* Inputs outside the grammar.  Violations are those whose first fault is an
\* unknown type tag, a length, integer or double that does not parse, or a
\* payload without its CRLF.
BadTag == RawTerm(<<"!", "x", CR, LF>>)

BadLength == RawTerm(<<"*", "x", CR, LF>>)

BadBulkLength == RawTerm(<<"$", CR, LF>>)

BadInt == LineTerm(":", <<"1", "a">>)

BadDouble == LineTerm(",", <<"1", ".", "x">>)

NoCRLF == RawTerm(<<"$", "2", CR, LF, "h", "i", "x", "x">>)

Faults == {BadTag, BadLength, BadBulkLength, BadInt, BadDouble, NoCRLF}

Violations ==
    Faults
    \cup {AggTerm("*", <<Seven, f>>) : f \in Faults}
    \cup {AggTerm("%", <<Key, f>>) : f \in {BadTag, BadInt}}
    \cup {AggTerm("*", <<AggTerm(">", <<f>>)>>) : f \in {BadTag, NoCRLF}}

Rejected ==
    Violations
    \cup {BulkTerm("=", <<"a", "b", "c", "d">>),
          AggTerm("%", <<AggTerm("*", <<>>), Seven>>),
          AggTerm("%", <<AggTerm("*", <<>>), Seven, Seven, Seven>>),
          Term("*", -2, <<>>, <<>>), Term("%", -2, <<>>, <<>>),
          RawTerm(<<"$", "-", "3", CR, LF>>),
          LineTerm(":", <<"1", "_", "0">>), LineTerm(":", <<" ", "1">>)}

\* Headers with a negative length other than -1, one for each type that
\* declares a length.
NegativeLengths ==
    {Term(tag, -2, <<>>, <<>>) : tag \in AggTags}
    \cup {RawTerm(<<tag, "-", "3", CR, LF>>) : tag \in BulkTags}

\* A bulk string whose payload holds LF, an undecodable byte and CRLF.
BinaryBulk == BulkTerm("$", <<LF, XFF, CR, LF>>)

Firsts == Leaves \cup Nested \cup Rejected \cup NegativeLengths \cup {BinaryBulk}

\* The replies that follow the first one: ":1", "+2", ":3", ...
Follower(j) == LineTerm(IF j % 2 = 1 THEN ":" ELSE "+", NatTok(j))

Streams ==
    {<<t>> \o [j \in 1 .. n |-> Follower(j)] :
        t \in Firsts, n \in 0 .. MaxReplies - 1}

\* The replies that carry strings, alone and inside aggregates.
EncFirsts ==
    {LineTerm("+", OK), BulkTerm("$", <<"h", "i">>), NullTerm("$"),
     BulkTerm("=", <<"t", "x", "t", ":", "a">>), LineTerm("-", <<"E">>), Seven,
     AggTerm("*", <<Seven, BulkTerm("$", <<"h", "i">>)>>),
     AggTerm("*", <<LineTerm("+", OK), BulkTerm("$", <<"h", "i">>)>>),
     AggTerm("%", <<Key, BulkTerm("$", <<"h", "i">>)>>),
     AggTerm("*", <<Seven, AggTerm(">", <<LineTerm("+", OK), Key>>)>>)}

EncStreams ==
    {<<t>> \o [j \in 1 .. n |-> Follower(j)] :
        t \in EncFirsts, n \in 0 .. MaxReplies - 1}

\* ---------------------------------------------------------------- the parser

\* The value parse_one returns for "more input needed": the default of the
\* constructor's notEnoughData, Python's False.
notEnoughData == BoolVal(FALSE)

\* What a parse_one call did: kind is "value", "sentinel" (notEnoughData
\* returned) or "raise"; from and upto are the stream offsets of the cursor
\* where the top-level parse began and where the call left it; resumed
\* tells that the call resumed a suspended parse.  In last, fresh tells that nothing was
\* appended since the call; once bytes are appended only the kind is kept.
\* fedBefore tells that bytes were appended between the call before and
\* this one.  encAtStart is the encoding attribute at the call that read
\* the type byte of the top-level reply.
Outcome(kind, val, exc, from, upto, resumed, fedBefore, fresh) ==
    [kind |-> kind, val |-> val, exc |-> exc, from |-> from, upto |-> upto,
     resumed |-> resumed, fedBefore |-> fedBefore, fresh |-> fresh]

NoCall == Outcome("none", NoneVal, NoErr, 0, 0, FALSE, FALSE, FALSE)

\* What the caller sees of an outcome, as out records it.
Seen(o) == [kind |-> o.kind, val |-> o.val, exc |-> o.exc]

\* __init__: empty buffer, no error, no generator, the dispatch table chosen
\* by the encoding; the owner's byte stream is the input of the run.
Init ==
    /\ items \in Streams
    /\ stream = EncAll(items)
    /\ buf = <<>>
    /\ pos = 0
    /\ err = NoErr
    /\ gen = <<>>
    /\ encoding \in {"None", "utf8"}
    /\ errors = "strict"
    /\ protocols = IF encoding # "None" THEN "_PROTOCOLS_DECODE" ELSE "_PROTOCOLS"
    /\ fed = 0
    /\ out = <<>>
    /\ last = NoCall
    /\ base = 0
    /\ inOrder = TRUE
    /\ encAtStart = encoding

\* The owner appends the next byte of the stream to buf.  A chunk is a run
\* of Feed steps; inOrder records that every chunk was appended after
\* parse_one had returned the sentinel.
Feed ==
    /\ fed < Len(stream)
    /\ buf' = Append(buf, stream[fed + 1])
    /\ fed' = fed + 1
    /\ inOrder' = (inOrder /\ last.kind \in {"none", "sentinel"})
    /\ last' = Outcome(last.kind, NoneVal, NoErr, 0, 0, FALSE, FALSE, FALSE)
    /\ UNCHANGED <<pos, err, gen, encoding, errors, protocols, items, stream,
                   out, base, encAtStart>>

\* Stream offset of the cursor: the bytes deleted from buf so far, plus pos.
Cursor(n, b, p) == n - Len(b) + p

\* No byte of a top-level reply has been read: there is no generator, or
\* the one there is waits in parse for the type byte.
AtFrameStart ==
    gen = <<>> \/ (Len(gen) = 3 /\ gen[1].pc = "ctl" /\ gen[2].fn = "readone")

\* parse_one without  self._gen = None  in its except clause: the suspended
\* generator stays in _gen when the call raises.
parse_one_keepsGen ==
    /\ Len(out) < MaxOut
    /\ \E m \in {Send(Machine(buf, pos, err, gen, encoding, errors, protocols))} :
        \E start \in {IF gen = <<>> THEN Cursor(fed, buf, pos) ELSE base} :
           /\ buf' = m.buf
           /\ pos' = m.pos
           /\ err' = m.err
           /\ gen' = CASE m.st = "yield" -> m.stack
                       [] m.st = "raised" -> gen
                       [] m.st = "done" -> <<>>
           /\ base' = start
           /\ encAtStart' = IF AtFrameStart THEN encoding ELSE encAtStart
           /\ last' = Outcome(CASE m.st = "done" -> "value"
                                [] m.st = "raised" -> "raise"
                                [] m.st = "yield" -> "sentinel",
                              IF m.st = "done" THEN m.ret ELSE NoneVal,
                              m.exc, start, Cursor(fed, m.buf, m.pos),
                              gen # <<>>, ~last.fresh, TRUE)
           /\ out' = IF m.st = "yield" THEN out ELSE Append(out, Seen(last'))
           /\ inOrder' = (inOrder /\ last.kind # "raise")
    /\ UNCHANGED <<encoding, errors, protocols, items, stream, fed>>

parse_one ==
    /\ Len(out) < MaxOut
    /\ \E m \in {Send(Machine(buf, pos, err, gen, encoding, errors, protocols))} :
        \E start \in {IF gen = <<>> THEN Cursor(fed, buf, pos) ELSE base} :
           /\ buf' = m.buf
           /\ pos' = m.pos
           /\ err' = m.err
           /\ gen' = IF m.st = "yield" THEN m.stack ELSE <<>>
           /\ base' = start
           /\ encAtStart' = IF AtFrameStart THEN encoding ELSE encAtStart
           /\ last' = Outcome(CASE m.st = "done" -> "value"
                                [] m.st = "raised" -> "raise"
                                [] m.st = "yield" -> "sentinel",
                              IF m.st = "done" THEN m.ret ELSE NoneVal,
                              m.exc, start, Cursor(fed, m.buf, m.pos),
                              gen # <<>>, ~last.fresh, TRUE)
           /\ out' = IF m.st = "yield" THEN out ELSE Append(out, Seen(last'))
           /\ inOrder' = (inOrder /\ last.kind # "raise")
    /\ UNCHANGED <<encoding, errors, protocols, items, stream, fed>>

Next == Feed \/ parse_one

Spec == Init /\ [][Next]_vars

\* The encoding setter: stores the attribute and installs the decoding
\* table, whatever the value stored.  As after Feed, last keeps only the
\* kind of the call before.
set_encoding ==
    /\ \E val \in {"None", "utf8"} :
          /\ encoding' = val
          /\ protocols' = "_PROTOCOLS_DECODE"
    /\ last' = Outcome(last.kind, NoneVal, NoErr, 0, 0, FALSE, FALSE, FALSE)
    /\ UNCHANGED <<buf, pos, err, gen, errors, items, stream, fed, out,
                   base, inOrder, encAtStart>>

\* The parser with an owner that also sets the encoding, between any two
\* calls, over the streams of string-bearing replies.
InitEnc ==
    /\ items \in EncStreams
    /\ stream = EncAll(items)
    /\ buf = <<>>
    /\ pos = 0
    /\ err = NoErr
    /\ gen = <<>>
    /\ encoding \in {"None", "utf8"}
    /\ errors = "strict"
    /\ protocols = IF encoding # "None" THEN "_PROTOCOLS_DECODE" ELSE "_PROTOCOLS"
    /\ fed = 0
    /\ out = <<>>
    /\ last = NoCall
    /\ base = 0
    /\ inOrder = TRUE
    /\ encAtStart = encoding

NextEnc == Feed \/ parse_one \/ set_encoding

SpecEnc == InitEnc /\ [][NextEnc]_vars

\* ---------------------------------------------------------------- expectations

\* A string-bearing reply as the encoding delivers it.
Delivered(b, enc, errs) ==
    IF enc = "None" THEN BytesVal(b) ELSE StrVal(DecodeText(b, errs))

\* The pairs of a map, each key bound to the value of its last occurrence.
RECURSIVE LastWins(_, _)
LastWins(pairs, sofar) ==
    IF pairs = <<>> THEN sofar
    ELSE LET key == pairs[1]
             v == pairs[2]
             put == IF \E j \in 1 .. Len(sofar) : sofar[j].k[1] = key
                    THEN [j \in 1 .. Len(sofar) |->
                            IF sofar[j].k[1] = key THEN PairVal(key, v)
                            ELSE sofar[j]]
                    ELSE Append(sofar, PairVal(key, v))
         IN  LastWins(SubSeq(pairs, 3, Len(pairs)), put)

\* The members of a set, duplicates collapsed.
RECURSIVE Collapse(_, _)
Collapse(vs, sofar) ==
    IF vs = <<>> THEN sofar
    ELSE Collapse(Tail(vs),
                  IF \E j \in 1 .. Len(sofar) : sofar[j] = vs[1]
                  THEN sofar ELSE Append(sofar, vs[1]))

\* The value a well-formed reply stands for.
RECURSIVE Expected(_, _, _)
Expected(t, enc, errs) ==
    LET kids == [j \in 1 .. Len(t.kids) |-> Expected(t.kids[j], enc, errs)]
    IN  CASE t.tag = "+" -> Delivered(t.s, enc, errs)
          [] t.tag = "-" -> replyError(DecodeText(t.s, "replace"))
          [] t.tag \in {":", "("} -> IntVal(PyInt(t.s).v)
          [] t.tag = "," -> FloatVal(PyFloat(t.s).v)
          [] t.tag = "#" -> BoolVal(t.s = <<"t">>)
          [] t.tag = "_" -> NoneVal
          [] t.n = -1 -> NoneVal
          [] t.tag = "$" -> Delivered(t.s, enc, errs)
          [] t.tag = "=" -> Delivered(SubSeq(t.s, 5, Len(t.s)), enc, errs)
          [] t.tag \in {"*", ">"} -> ListVal(kids)
          [] t.tag = "~" -> SetVal(Collapse(kids, <<>>))
          [] t.tag = "%" -> DictVal(LastWins(kids, <<>>))

\* The strings of a reply can be decoded under the encoding.
Decodable(t, enc, errs) ==
    \/ enc = "None"
    \/ errs # "strict"
    \/ \A u \in SubTerms(t) : \A j \in 1 .. Len(u.s) : u.s[j] # XFF

\* Every term of the stream with the offset of its first byte.
RECURSIVE Placed(_, _)
Placed(ts, off) ==
    IF ts = <<>> THEN {}
    ELSE LET t == ts[1]
             head == Len(Enc(t)) - Len(EncAll(t.kids))
         IN  {[at |-> off, term |-> t]}
             \cup (IF t.tag \in AggTags THEN Placed(t.kids, off + head) ELSE {})
             \cup Placed(Tail(ts), off + Len(Enc(t)))

HasReply(off) == \E p \in Placed(items, 0) : p.at = off

ReplyAt(off) == (CHOOSE p \in Placed(items, 0) : p.at = off).term

\* A well-formed reply starts at off and all its bytes have been appended.
Complete(off) ==
    /\ HasReply(off)
    /\ WellFormed(ReplyAt(off))
    /\ off + Len(Enc(ReplyAt(off))) <= fed

\* The last step was a parse_one call that returned a value or raised.
Finished == last.fresh /\ last.kind \in {"value", "raise"}

Returned == last.fresh /\ last.kind = "value"

\* ---------------------------------------------------------------- claims

\* The stream appended as one chunk to a new parser, and parse_one called
\* until it returns the sentinel or raises: the values and the error seen.
RECURSIVE Drain(_, _, _, _)
Drain(b, p, e, seen) ==
    LET m == Send(Machine(b, p, e, <<>>, encoding, errors, protocols))
    IN  IF m.st = "yield" \/ Len(seen) >= MaxOut THEN seen
        ELSE IF m.st = "raised"
        THEN Append(seen, [kind |-> "raise", val |-> NoneVal, exc |-> m.exc])
        ELSE Drain(m.buf, m.pos, m.err,
                   Append(seen, [kind |-> "value", val |-> m.ret, exc |-> NoErr]))

OneChunk == Drain(stream, 0, NoErr, <<>>)

\* Every chunk has been appended and parse_one has been called until it
\* returned the sentinel or raised.
Drained ==
    /\ inOrder
    /\ last.fresh
    /\ \/ last.kind = "raise"
       \/ last.kind = "sentinel" /\ fed = Len(stream)

\* C1: for every partition of the stream into chunks, each appended and
\* then parsed until the sentinel, the values returned and the error raised
\* are those of the stream appended as one chunk.
ChunkIndependence ==
    Drained => out = OneChunk

\* C2: parse_one returns the sentinel only when the buffered input ends
\* before the reply in progress is complete: it does not return it when a
\* complete well-formed reply has been appended from the start of the parse.
SentinelOnlyWhenIncomplete ==
    (last.fresh /\ last.kind = "sentinel") => ~Complete(last.from)

\* C3: once a protocol error is latched, _err never changes again, and
\* every parse_one call raises that error and leaves buf and pos as they
\* were, whatever has been appended.
StickyError ==
    [][err # NoErr =>
        /\ err' = err
        /\ fed' = fed =>
            /\ buf' = buf
            /\ pos' = pos
            /\ last'.kind = "raise"
            /\ last'.exc = err]_vars

\* A latched protocol error raised a second time, with bytes appended
\* between the two calls.
StickyWitness ==
    /\ Len(out) >= 2
    /\ out[Len(out) - 1].kind = "raise"
    /\ out[Len(out) - 1].exc.cls = "ProtocolError"
    /\ last.fresh /\ last.fedBefore
    /\ last.kind = "raise" /\ last.exc = err

\* C4: the call that returns the value of a well-formed reply has consumed
\* exactly the bytes of that reply: pos is 0 and buf holds the bytes that
\* were appended after it.
ExactConsumption ==
    (Returned /\ Complete(last.from)) =>
        /\ pos = 0
        /\ last.upto = last.from + Len(Enc(ReplyAt(last.from)))
        /\ buf = SubSeq(stream, last.upto + 1, fed)

\* A nested aggregate returned while bytes of the next reply are buffered.
ConsumedWitness ==
    /\ Returned /\ Complete(last.from)
    /\ ReplyAt(last.from) \in Level(2)
    /\ buf # <<>>

\* The values returned so far.
Values == SelectSeq(out, LAMBDA o : o.kind = "value")

\* C5: over a stream of well-formed replies, the values returned are the
\* values of the replies in stream order, one per call, none skipped.
RepliesInOrder ==
    (\A j \in 1 .. Len(items) :
        WellFormed(items[j]) /\ Decodable(items[j], encoding, errors)) =>
        /\ Len(Values) <= Len(items)
        /\ \A j \in 1 .. Len(Values) :
              Values[j].val = Expected(items[j], encoding, errors)

\* C6: an array, push or map reply of declared length n >= 0 is returned
\* only complete: with all its children, in wire order, at every depth,
\* wherever the parse was suspended.
NoPartialReply ==
    (/\ Returned /\ Complete(last.from)
     /\ ReplyAt(last.from).tag \in {"*", ">", "%"}
     /\ ReplyAt(last.from).n >= 0) =>
        last.val = Expected(ReplyAt(last.from), encoding, errors)

\* A nested aggregate returned by a call that resumed a suspended parse.
ResumedWitness ==
    /\ Returned /\ last.resumed /\ Complete(last.from)
    /\ ReplyAt(last.from) \in Level(2)
    /\ last.val.k # <<>>

\* C7: the call that observes an unknown tag, a length, integer or double
\* that does not parse, or a payload without CRLF, at top level or inside
\* an aggregate, raises a protocol error; a protocol error is latched in
\* _err when it is raised and the suspended parse is dropped.
ViolationLatched ==
    /\ (Finished /\ HasReply(last.from) /\ ReplyAt(last.from) \in Violations) =>
          (last.kind = "raise" /\ last.exc.cls = "ProtocolError")
    /\ (last.fresh /\ last.kind = "raise" /\ last.exc.cls = "ProtocolError") =>
          (err = last.exc /\ gen = <<>>)

\* A violation inside an aggregate, raised by a call that resumed the parse.
NestedViolationWitness ==
    /\ Finished /\ last.resumed
    /\ HasReply(last.from) /\ ReplyAt(last.from) \in Violations
    /\ ReplyAt(last.from).tag \in AggTags
    /\ last.kind = "raise" /\ err = last.exc /\ err # NoErr

\* C8: an input outside the grammar is rejected with a protocol error that
\* is latched, so that no call raises and leaves _err unset.
RejectedAsProtocolError ==
    (/\ last.fresh /\ last.kind = "raise"
     /\ HasReply(last.from) /\ ~WellFormed(ReplyAt(last.from))) =>
        (last.exc.cls = "ProtocolError" /\ err = last.exc)

\* C9: a set reply of declared length n >= 0 with well-formed children is
\* returned as the set of its n child values and raises nothing.
SetLikeArray ==
    (/\ Finished /\ Complete(last.from)
     /\ ReplyAt(last.from).tag = "~"
     /\ ReplyAt(last.from).n >= 0) =>
        /\ last.kind = "value"
        /\ last.val = Expected(ReplyAt(last.from), encoding, errors)

\* C10: a well-formed reply that is or holds an error reply is returned as
\* a value, the error reply as the value of reply_error_ctor in its place,
\* and _err stays unset.
ReplyErrorIsValue ==
    (/\ Finished /\ Complete(last.from)
     /\ \E u \in SubTerms(ReplyAt(last.from)) : u.tag = "-") =>
        /\ last.kind = "value"
        /\ last.val = Expected(ReplyAt(last.from), encoding, errors)
        /\ err = NoErr

\* C11: with the default notEnoughData no completed reply makes parse_one
\* return a value equal to the sentinel, so the caller can tell "value
\* ready" from "more input needed" from what the call returns.
ValueIsNotSentinel ==
    Returned => last.val # notEnoughData

\* C12: a reply is delivered under the encoding that was set when its
\* top-level parse began: setting the encoding while the reply is suspended
\* changes none of its strings, and the replies that begin after the change
\* are delivered under the new encoding.
EncodingAtFrameStart ==
    (Returned /\ Complete(last.from)) =>
        last.val = Expected(ReplyAt(last.from), encAtStart, errors)

\* Every child of the reply parses to a value: no set with members inside
\* and every string decodable.
ChildrenParse(t) ==
    /\ Decodable(t, encoding, errors)
    /\ \A u \in SubTerms(t) : u.tag = "~" => u.n <= 0

\* C13: a well-formed map reply of declared length n >= 0 is returned after
\* exactly its 2n children have been parsed, as a map of at most n entries
\* that binds each key to the value of its last occurrence in wire order;
\* with length -1 it is returned as null after the header line alone.
MapLastWriteWins ==
    (/\ Finished /\ Complete(last.from)
     /\ ReplyAt(last.from).tag = "%"
     /\ ChildrenParse(ReplyAt(last.from))) =>
        /\ last.kind = "value"
        /\ last.upto = last.from + Len(Enc(ReplyAt(last.from)))
        /\ IF ReplyAt(last.from).n = -1 THEN last.val = NoneVal
           ELSE /\ last.val.t = "dict"
                /\ Len(last.val.k) <= ReplyAt(last.from).n
                /\ last.val = Expected(ReplyAt(last.from), encoding, errors)

\* A map with the same key twice, returned with one entry by a call that
\* resumed the parse.
DuplicateKeyWitness ==
    /\ Returned /\ last.resumed /\ Complete(last.from)
    /\ ReplyAt(last.from).tag = "%"
    /\ ReplyAt(last.from).n = 2
    /\ Len(last.val.k) = 1

\* C14: a header whose declared length is negative and not -1 never gives
\* a value: the call that gets past the sentinel on it raises a protocol
\* error that is latched.
NegativeLengthRejected ==
    (/\ Finished /\ HasReply(last.from)
     /\ ReplyAt(last.from) \in NegativeLengths) =>
        /\ last.kind = "raise"
        /\ last.exc.cls = "ProtocolError"
        /\ err = last.exc

\* C15: in every state, whatever was appended and however parse_one ended
\* (value, sentinel or raise), 0 <= pos <= len(buf).
PosInBuffer ==
    0 <= pos /\ pos <= Len(buf)

\* A call that raised on an unknown type byte and left the cursor at the
\* end of the buffer, behind that byte.
PosAtEndWitness ==
    /\ last.fresh /\ last.kind = "raise"
    /\ pos = 1 /\ Len(buf) = 1

\* C16: _gen is present exactly when the last parse_one call returned the
\* sentinel; the call after a sentinel resumes the parse suspended at the
\* same reply, the call after a value or a raise starts a new top-level
\* parse at the cursor.
GenIffSentinel ==
    /\ []((gen # <<>>) <=> (last.kind = "sentinel"))
    /\ [][fed' = fed =>
            IF last.kind = "sentinel"
            THEN last'.resumed /\ last'.from = base
            ELSE ~last'.resumed /\ last'.from = Cursor(fed, buf, pos)]_vars

\* A call that resumed a suspended parse and raised: the generator is gone.
RaiseClearsGenWitness ==
    /\ last.fresh /\ last.kind = "raise" /\ last.resumed
    /\ gen = <<>>

\* C17: a bulk string reply of declared length n >= 0 stays suspended
\* until its n + 2 payload bytes are buffered, and is then returned as
\* exactly the n bytes after the header line, CRLF inside them included,
\* with nothing consumed beyond the n + 2 bytes.
BinarySafeBulk ==
    (/\ last.fresh /\ HasReply(last.from)
     /\ ReplyAt(last.from).tag = "$" /\ ReplyAt(last.from).n >= 0
     /\ WellFormed(ReplyAt(last.from))
     /\ Decodable(ReplyAt(last.from), encoding, errors)) =>
        /\ ~Complete(last.from) => last.kind = "sentinel"
        /\ last.kind # "sentinel" =>
              /\ last.kind = "value"
              /\ last.val = Delivered(ReplyAt(last.from).s, encoding, errors)
              /\ last.upto = last.from + Len(Enc(ReplyAt(last.from)))
              /\ buf = SubSeq(stream, last.upto + 1, fed)

\* A payload with CRLF inside, returned whole by a call that resumed the
\* parse while bytes of the next reply are buffered.
EmbeddedCRLFWitness ==
    /\ Returned /\ last.resumed /\ HasReply(last.from)
    /\ ReplyAt(last.from) \in {BinaryBulk, BulkTerm("$", CRLF)}
    /\ last.val.s = ReplyAt(last.from).s
    /\ buf # <<>>

\* C18: after the constructor and any calls of the encoding setter, the
\* decoding table is in use exactly when an encoding is set, and a simple,
\* bulk or verbatim string reply parsed under one encoding setting is
\* returned as text when an encoding is set and as bytes, without a raise,
\* when none is.
TableMatchesEncoding ==
    /\ (protocols = "_PROTOCOLS_DECODE") <=> (encoding # "None")
    /\ (/\ Finished /\ Complete(last.from)
        /\ ReplyAt(last.from).tag \in {"+", "$", "="}
        /\ Decodable(ReplyAt(last.from), encoding, errors)
        /\ encAtStart = encoding) =>
           /\ last.kind = "value"
           /\ last.val = Expected(ReplyAt(last.from), encoding, errors)

\* C19: a call that returns the sentinel leaves in buf the appended bytes
\* from some offset on, unchanged, with the cursor inside the reply in
\* progress; and a call made right after a sentinel, with nothing appended
\* in between, returns the sentinel again and changes none of buf, pos,
\* _err and _gen.
SentinelKeepsInput ==
    /\ []((last.fresh /\ last.kind = "sentinel") =>
            /\ buf = SubSeq(stream, fed - Len(buf) + 1, fed)
            /\ last.from <= last.upto
            /\ (HasReply(last.from) /\ WellFormed(ReplyAt(last.from))) =>
                  last.upto < last.from + Len(Enc(ReplyAt(last.from))))
    /\ [][(fed' = fed /\ last.fresh /\ last.kind = "sentinel") =>
            /\ last'.kind = "sentinel"
            /\ buf' = buf /\ pos' = pos /\ err' = err /\ gen' = gen]_vars

\* The second of two sentinel calls with nothing appended between them,
\* inside an aggregate whose header line is consumed, with bytes of a child
\* in buf.
RepeatedSentinelWitness ==
    /\ last.fresh /\ last.kind = "sentinel"
    /\ last.resumed /\ ~last.fedBefore
    /\ HasReply(last.from) /\ ReplyAt(last.from).tag \in AggTags
    /\ last.upto >= last.from + Len(Enc(ReplyAt(last.from)))
                                - Len(EncAll(ReplyAt(last.from).kids))
    /\ buf # <<>>

\* C20: when parse_one returns, pos is 0 or 1; it is 0 after a value; at
\* a suspension with pos = 1, buf[0] is a type byte and the line behind it
\* is incomplete, no CRLF being buffered behind pos; at a suspension with
\* pos = 0, buf is empty or holds a part of a sized payload.  So no
\* complete line stays at the front of buf.
PosZeroOrOne ==
    (last.fresh /\ last.kind \in {"value", "sentinel"}) =>
        /\ pos \in {0, 1}
        /\ last.kind = "value" => pos = 0
        /\ (last.kind = "sentinel" /\ pos = 1) =>
              /\ buf[1] \in DOMAIN _PROTOCOLS
              /\ Find(buf, pos) < 0
        /\ (last.kind = "sentinel" /\ pos = 0) =>
              \/ buf = <<>>
              \/ /\ gen[Len(gen) - 1].fn = "readline_size"
                 /\ Len(buf) < gen[Len(gen) - 1].n + 2

====
